---- MODULE Spec2Model ----
(***************************************************************************)
(* A model of quickersort's sort engine (src/src/sort.rs): the entry       *)
(* points sort / sort_by / insertion_sort / heapsort, the introsort        *)
(* driver with its pivot selector, the dual-pivot partitioner with its     *)
(* DualPivotSort drop guard, the single-pivot fat partitioner, and the     *)
(* quaternary heapsort with its Siftdown / Siftup drop guards.             *)
(*                                                                         *)
(* One run sorts one slice.  The slice holds element identities 0..N-1     *)
(* (the element that started in slot i is element i); keys[i] is the key   *)
(* the comparator reads from element i.  Every comparator call is a step   *)
(* of its own, and at every call the comparator may abort (panic); the     *)
(* unwinding then runs the drop guard that is alive at that call.          *)
(*                                                                         *)
(* usize values are kept as integers; a value that wrapped below zero is   *)
(* kept negative (-1 stands for usize::MAX) and is compared as unsigned    *)
(* by ULt / ULe.  A subtraction that underflows panics in a build with     *)
(* overflow checks and wraps in a build without them: both are modelled.   *)
(* An unchecked access (get_unchecked, ptr::read/write/copy/swap) outside  *)
(* the slice is undefined behaviour: the run stops in status "ub".         *)
(***************************************************************************)
EXTENDS Integers, Sequences, FiniteSets

\* ------------------------------------------------------------------ bounds
MaxSmall == 3      \* slices of length 0..MaxSmall are enumerated over all keys
MaxKey == 2        \* keys of the enumerated slices are 0..MaxKey
MaxBig == 11       \* generated slices have length MinBig..MaxBig
MaxMod == 11       \* generated slices: keys[i] = (a * i) % m, m in 1..MaxMod
MaxNest == 2       \* nesting slices: one per multiplier 1..MaxNest

\* ------------------------------------------------------- program constants
MIN_QUICKSORT_ELEMS == 10
MAX_INSERTION_SORT_ELEMS == 42
INSERTION_SORT_FACTOR == 450
UsizeBits == 64

\* The shortest slice the introsort driver partitions when elements are big.
MinBig == MIN_QUICKSORT_ELEMS + 1

NONE == -1

Min(a, b) == IF a <= b THEN a ELSE b
Max(a, b) == IF a >= b THEN a ELSE b

\* Unsigned comparison of usize values (a negative integer is a wrapped value).
ULt(a, b) == IF (a < 0) = (b < 0) THEN a < b ELSE a >= 0
ULe(a, b) == a = b \/ ULt(a, b)

\* Rust's integer division truncates toward zero.
TruncDiv(a, b) == IF a >= 0 THEN a \div b ELSE -((-a) \div b)

RECURSIVE BitLen(_)
BitLen(x) == IF x = 0 THEN 0 ELSE 1 + BitLen(x \div 2)
LeadingZeros(x) == UsizeBits - BitLen(x)

\* fn log2
log2(x) == IF x <= 1 THEN 0 ELSE UsizeBits - LeadingZeros(x)

\* The insertion threshold of maybe_insertion_sort; size_of::<T>() = 0 divides
\* by zero (a panic), modelled as NONE.
Threshold(sz) ==
    IF sz = 0 THEN NONE
    ELSE Min(MAX_INSERTION_SORT_ELEMS,
             Max(MIN_QUICKSORT_ELEMS, INSERTION_SORT_FACTOR \div sz))

\* maybe_insertion_sort's decision for a slice of length len.
MaybeInsertion(len, sz) ==
    IF len <= 1 THEN "noop"
    ELSE IF sz = 0 THEN "divzero"
    ELSE IF len <= Threshold(sz) THEN "insertion"
    ELSE "quick"

\* The five sample positions of do_introsort, as usize arithmetic.
Seventh(len) == (len \div 8) + (len \div 64) + 1
Samples(len) ==
    LET e3 == len \div 2
        s == Seventh(len)
    IN  <<e3 - 2 * s, e3 - s, e3, e3 + s, e3 + 2 * s>>

\* The sorting network of do_introsort: the pairs of maybe_swap!, in order.
Network ==
    << <<1, 2>>, <<4, 5>>, <<3, 5>>, <<3, 4>>, <<2, 5>>,
       <<1, 4>>, <<1, 3>>, <<2, 4>>, <<2, 3>> >>

\* ------------------------------------------------------------------ inputs
ElemSizes == {0, 8, 64}
Entries == {"sort", "sort_by", "insertion_sort", "heapsort"}
TotalOrders == {"asc", "rev"}
Comparators == {"asc", "rev", "equal", "less", "greater", "noeq", "cyclic", "stuck"}

SmallKeys == UNION {[0 .. (len - 1) -> 0 .. MaxKey] : len \in 0 .. MaxSmall}
BigKeys ==
    {[i \in 0 .. (len - 1) |-> (a * i) % m] :
        len \in MinBig .. MaxBig, m \in 1 .. MaxMod, a \in 0 .. MaxMod}
\* Slices of length MinBig + 3 whose first three samples hold the smallest key
\* and whose other MinBig slots hold distinct keys: the fat partition leaves a
\* sub-range of length MinBig, which is partitioned again.
NestLen == MinBig + 3
NestLow == {Samples(NestLen)[x] : x \in 1 .. 3}
NestRank(i) == Cardinality({j \in 0 .. (i - 1) : j \notin NestLow})
NestKeys ==
    {[i \in 0 .. (NestLen - 1) |->
        IF i \in NestLow THEN 0 ELSE 1 + ((a * NestRank(i)) % MinBig)] :
        a \in 1 .. MaxNest}
Inputs == SmallKeys \cup BigKeys \cup NestKeys

VARIABLES
    entry,          \* the entry point called
    cmpKind,        \* the comparator passed
    elemSize,       \* size_of::<T>()
    keys,           \* keys[x]: the key of element x
    v,              \* the whole slice: v[i] is the element in slot i
    status,         \* running | returned | aborted | panicked | ub
    pc,             \* the position in the code
    stack,          \* the pending introsort calls, as slice expressions
    base, n, rec,   \* the current sub-slice v[base .. base+n) and its depth
    heapsort_depth, \* sort_by's bound
    loc,            \* the locals of the routine running, holding cells included
    unwind,         \* none | abort | panic: what is unwinding
    wrapped,        \* a usize subtraction wrapped (a build without checks)
    fault           \* what went wrong first, "" when nothing did

params == <<entry, cmpKind, elemSize, keys>>
frame == <<base, n, rec>>
vars == <<entry, cmpKind, elemSize, keys, v, status, pc, stack, base, n, rec,
          heapsort_depth, loc, unwind, wrapped, fault>>

N == Cardinality(DOMAIN keys)

\* The comparator, on elements x and y.
AscOrd(kx, ky) == IF kx < ky THEN "Less" ELSE IF kx = ky THEN "Equal" ELSE "Greater"
compare(x, y) ==
    LET kx == keys[x]
        ky == keys[y]
    IN  CASE cmpKind = "asc" -> AscOrd(kx, ky)
          [] cmpKind = "rev" -> AscOrd(ky, kx)
          [] cmpKind = "equal" -> "Equal"
          [] cmpKind = "less" -> "Less"
          [] cmpKind = "greater" -> "Greater"
          [] cmpKind = "noeq" -> IF kx < ky THEN "Less" ELSE "Greater"
          [] cmpKind = "cyclic" ->
                CASE (kx - ky) % 3 = 0 -> "Equal"
                  [] (kx - ky) % 3 = 1 -> "Greater"
                  [] OTHER -> "Less"
          [] cmpKind = "stuck" -> IF ky = 0 THEN "Less" ELSE "Equal"

\* Slot i of the current sub-slice.
InR(i) == i >= 0 /\ i < n
AllIn(S) == \A i \in S : InR(i)
Rd(f, i) == f[base + i]
Wr(f, i, x) == [f EXCEPT ![base + i] = x]
SwapOverwrite(f, i, j) == [f EXCEPT ![base + i] = f[base + j]]
Swap(f, i, j) == [f EXCEPT ![base + i] = f[base + j], ![base + j] = f[base + i]]
\* compare_idxs / compare_idxs_safe
compare_idxs(f, a, b) == compare(Rd(f, a), Rd(f, b))

L0 ==
    [i |-> 0, j |-> 0,
     e |-> <<0, 0, 0, 0, 0>>, step |-> 0,
     less |-> 0, great |-> 0, k |-> 0,
     pivot1 |-> NONE, pivot2 |-> NONE, vk |-> NONE,
     a |-> 0, b |-> 0, c |-> 0, d |-> 0,
     end |-> 0, hn |-> 0, phase |-> "",
     pos_ |-> 0, send |-> 0, pos |-> 0, m_left |-> 0,
     largest_left |-> 0, largest_right |-> 0, new |-> NONE]

Init ==
    /\ entry \in Entries
    /\ cmpKind \in Comparators
    /\ entry = "sort" => cmpKind = "asc"
    /\ elemSize \in ElemSizes
    \* insertion_sort and heapsort never consult size_of::<T>()
    /\ entry \in {"insertion_sort", "heapsort"} => elemSize = 8
    /\ keys \in Inputs
    /\ v = [i \in DOMAIN keys |-> i]
    /\ status = "running"
    /\ pc = "start"
    /\ stack = <<>>
    /\ base = 0 /\ n = Cardinality(DOMAIN keys) /\ rec = 0
    /\ heapsort_depth = 0
    /\ loc = L0
    /\ unwind = "none"
    /\ wrapped = FALSE
    /\ fault = ""

\* ---------------------------------------------------------- ways to stop
Stop(st, why) ==
    /\ status' = st
    /\ pc' = "done"
    /\ fault' = IF fault = "" THEN why ELSE fault
    /\ UNCHANGED <<params, v, stack, frame, heapsort_depth, loc, unwind, wrapped>>

\* An unchecked access outside the slice.
Ub(where) == Stop("ub", where)

\* A routine returned: the next pending introsort call runs, or the entry
\* point returns.
Return(newStack) ==
    /\ stack' = newStack
    /\ IF newStack = <<>>
       THEN status' = "returned" /\ pc' = "done"
       ELSE status' = status /\ pc' = "introsort"
    /\ loc' = L0

\* What maybe_insertion_sort decided for the slice v[b0 .. b0+len) at depth r.
Dispatch(b0, len, r, st) ==
    LET m == MaybeInsertion(len, elemSize)
    IN  /\ base' = b0 /\ n' = len /\ rec' = r
        /\ CASE m = "noop" ->
                  /\ Return(st)
                  /\ UNCHANGED fault
             [] m = "divzero" ->
                  /\ status' = "panicked" /\ pc' = "done" /\ stack' = st
                  /\ fault' = IF fault = "" THEN "divzero" ELSE fault
                  /\ loc' = L0
             [] m = "insertion" ->
                  /\ status' = status /\ pc' = "ins_outer" /\ stack' = st
                  /\ loc' = [L0 EXCEPT !.i = 1]
                  /\ UNCHANGED fault
             [] m = "quick" ->
                  /\ status' = status /\ pc' = "do_introsort" /\ stack' = st
                  /\ loc' = L0
                  /\ UNCHANGED fault

\* ------------------------------------------------------------ entry points
\* sort_by, and sort, which calls it with the default order.
SortBy ==
    /\ status = "running" /\ pc = "start"
    /\ entry \in {"sort", "sort_by"}
    /\ Dispatch(0, N, 0, <<>>)
    /\ heapsort_depth' =
          IF MaybeInsertion(N, elemSize) = "quick"
          THEN (3 * log2(N)) \div 2 ELSE heapsort_depth
    /\ UNCHANGED <<params, v, unwind, wrapped>>

InsertionSortEntry ==
    /\ status = "running" /\ pc = "start"
    /\ entry = "insertion_sort"
    /\ pc' = "ins_outer"
    /\ loc' = [L0 EXCEPT !.i = 1]
    /\ UNCHANGED <<params, v, status, stack, frame, heapsort_depth, unwind, wrapped, fault>>

HeapsortEntry ==
    /\ status = "running" /\ pc = "start"
    /\ entry = "heapsort"
    /\ pc' = "heapsort"
    /\ UNCHANGED <<params, v, status, stack, frame, heapsort_depth, loc, unwind, wrapped, fault>>

\* fn introsort, on the next pending call: the slice expression is evaluated
\* first (a start past its end, or an end past the length, panics).
Introsort ==
    /\ status = "running" /\ pc = "introsort"
    /\ LET f == Head(stack)
       IN  IF ULe(f.s, f.t) /\ ULe(f.t, f.len)
           THEN /\ Dispatch(f.base + f.s, f.t - f.s, f.rec, Tail(stack))
                /\ UNCHANGED <<params, v, heapsort_depth, unwind, wrapped>>
           ELSE /\ status' = "panicked" /\ pc' = "done"
                /\ fault' = IF fault = "" THEN "slice_index" ELSE fault
                /\ UNCHANGED <<params, v, stack, frame, heapsort_depth, loc, unwind, wrapped>>

\* ---------------------------------------------------------- insertion_sort
InsOuter ==
    /\ status = "running" /\ pc = "ins_outer"
    /\ IF loc.i < n
       THEN /\ loc' = [loc EXCEPT !.j = loc.i]
            /\ pc' = "ins_inner"
            /\ UNCHANGED <<status, stack>>
       ELSE Return(stack)
    /\ UNCHANGED <<params, v, frame, heapsort_depth, unwind, wrapped, fault>>

InsSwapUnlessLess(r) == r # "Less"
\* Line 108: the adjacent swap happens when the comparator says Greater.
InsSwapWhen(r) == r = "Greater"

InsInner ==
    /\ status = "running" /\ pc = "ins_inner"
    /\ IF loc.j > 0 /\ InsSwapWhen(compare_idxs(v, loc.j - 1, loc.j))
       THEN /\ v' = Swap(v, loc.j, loc.j - 1)
            /\ loc' = [loc EXCEPT !.j = loc.j - 1]
            /\ pc' = pc
       ELSE /\ v' = v
            /\ loc' = [loc EXCEPT !.i = loc.i + 1]
            /\ pc' = "ins_outer"
    /\ UNCHANGED <<params, status, stack, frame, heapsort_depth, unwind, wrapped, fault>>


\* ------------------------------------------------------------ step shapes
\* A step that neither wraps nor faults.
Step(newV, newLoc, newPc) ==
    /\ v' = newV /\ loc' = newLoc /\ pc' = newPc
    /\ UNCHANGED <<params, status, stack, frame, heapsort_depth, unwind, wrapped, fault>>

\* A step whose usize subtraction underflows when uf holds: a build with
\* overflow checks panics there (and unwinds through guardPc, the drop of the
\* guard alive, or straight to the caller when guardPc is "done"); a build
\* without them wraps, and goes on wrapping.
Checked(uf, guardPc, newV, newLoc, newPc) ==
    \E chk \in (IF uf /\ ~wrapped THEN BOOLEAN ELSE {FALSE}) :
        IF chk
        THEN /\ status' = IF guardPc = "done" THEN "panicked" ELSE status
             /\ pc' = guardPc
             /\ unwind' = "panic"
             /\ fault' = IF fault = "" THEN "underflow" ELSE fault
             /\ UNCHANGED <<params, v, stack, frame, heapsort_depth, loc, wrapped>>
        ELSE /\ v' = newV /\ loc' = newLoc /\ pc' = newPc
             /\ wrapped' = (wrapped \/ uf)
             /\ fault' = IF uf /\ fault = "" THEN "underflow" ELSE fault
             /\ UNCHANGED <<params, status, stack, frame, heapsort_depth, unwind>>

\* ------------------------------------------------------------ do_introsort
\* rec > heapsort_depth: the range goes to heapsort.
DepthExceeded(r, bound) == r > bound

IntroHeapsort ==
    /\ status = "running" /\ pc = "do_introsort"
    /\ DepthExceeded(rec, heapsort_depth)
    /\ Step(v, L0, "heapsort")

SelectPivots ==
    /\ status = "running" /\ pc = "do_introsort"
    /\ ~DepthExceeded(rec, heapsort_depth)
    /\ Step(v, [L0 EXCEPT !.e = Samples(n), !.step = 1], "net")

\* One maybe_swap! of the sorting network: the two indices are swapped, the
\* elements stay where they are.
NetStep ==
    /\ status = "running" /\ pc = "net"
    /\ LET x == Network[loc.step][1]
           y == Network[loc.step][2]
           ex == loc.e[x]
           ey == loc.e[y]
           e2 == IF compare_idxs(v, ex, ey) = "Greater"
                 THEN [loc.e EXCEPT ![x] = ey, ![y] = ex]
                 ELSE loc.e
       IN  IF ~AllIn({ex, ey}) THEN Ub("do_introsort")
           ELSE IF loc.step < Len(Network)
           THEN Step(v, [loc EXCEPT !.e = e2, !.step = loc.step + 1], "net")
           ELSE Step(v, [loc EXCEPT !.e = e2, !.step = 1], "adj")

\* The four comparisons of consecutive candidates, short-circuited.
AdjStep ==
    /\ status = "running" /\ pc = "adj"
    /\ LET ex == loc.e[loc.step]
           ey == loc.e[loc.step + 1]
       IN  IF ~AllIn({ex, ey}) THEN Ub("do_introsort")
           ELSE IF compare_idxs(v, ex, ey) = "Equal"
           THEN Step(v, loc, "fat_start")
           ELSE IF loc.step < 4
           THEN Step(v, [loc EXCEPT !.step = loc.step + 1], "adj")
           ELSE Step(v, loc, "dp_start")

\* --------------------------------------------------------- dual_pivot_sort
\* Lines 151-171: the pivots move to the holding cells, the first and last
\* elements fill their slots.
DpStart ==
    /\ status = "running" /\ pc = "dp_start"
    /\ LET p1 == loc.e[2]
           p2 == loc.e[4]
           great == n - 1
           v1 == Wr(v, p1, Rd(v, 0))
           v2 == Wr(v1, p2, Rd(v1, great))
       IN  IF ~AllIn({p1, p2, 0, great}) THEN Ub("dual_pivot_sort")
           ELSE Step(v2, [L0 EXCEPT !.pivot1 = Rd(v, p1), !.pivot2 = Rd(v, p2),
                                    !.less = 1, !.great = great],
                     "dp_skip_less")

\* Line 172, and line 173 when the loop ends.
DpSkipLess ==
    /\ status = "running" /\ pc = "dp_skip_less"
    /\ IF ~InR(loc.less) THEN Ub("dual_pivot_sort")
       ELSE IF compare(Rd(v, loc.less), loc.pivot1) = "Less"
       THEN Step(v, [loc EXCEPT !.less = loc.less + 1], "dp_skip_less")
       ELSE Checked(loc.great = 0, "dp_drop", v,
                    [loc EXCEPT !.great = loc.great - 1], "dp_skip_great")

\* Line 174, and line 177 when the loop ends.
DpSkipGreat ==
    /\ status = "running" /\ pc = "dp_skip_great"
    /\ IF ~InR(loc.great) THEN Ub("dual_pivot_sort")
       ELSE IF compare(Rd(v, loc.great), loc.pivot2) = "Greater"
       THEN Checked(loc.great = 0, "dp_drop", v,
                    [loc EXCEPT !.great = loc.great - 1], "dp_skip_great")
       ELSE Step(v, [loc EXCEPT !.k = loc.less], "dp_loop")

\* Lines 178-179: the loop test, and vk read from slot k.
DpLoop ==
    /\ status = "running" /\ pc = "dp_loop"
    /\ IF ULe(loc.k, loc.great)
       THEN IF ~InR(loc.k) THEN Ub("dual_pivot_sort")
            ELSE Step(v, [loc EXCEPT !.vk = Rd(v, loc.k)], "dp_k1")
       ELSE Step(v, loc, "dp_drop")

\* Lines 180-183.
DpK1 ==
    /\ status = "running" /\ pc = "dp_k1"
    /\ IF compare(loc.vk, loc.pivot1) = "Less"
       THEN IF ~AllIn({loc.less, loc.k}) THEN Ub("dual_pivot_sort")
            ELSE Step(Wr(Wr(v, loc.k, Rd(v, loc.less)), loc.less, loc.vk),
                      [loc EXCEPT !.less = loc.less + 1, !.k = loc.k + 1,
                                  !.vk = NONE],
                      "dp_loop")
       ELSE Step(v, loc, "dp_k2")

\* Line 184, and line 201 when vk lies between the pivots.
DpK2 ==
    /\ status = "running" /\ pc = "dp_k2"
    /\ IF compare(loc.vk, loc.pivot2) = "Greater"
       THEN Step(v, loc, "dp_gw")
       ELSE Step(v, [loc EXCEPT !.k = loc.k + 1, !.vk = NONE], "dp_loop")

\* Lines 185-190.
DpGw ==
    /\ status = "running" /\ pc = "dp_gw"
    /\ IF ~InR(loc.great) THEN Ub("dual_pivot_sort")
       ELSE IF compare(Rd(v, loc.great), loc.pivot2) = "Greater"
       THEN Checked(loc.great = 0, "dp_drop", v,
                    [loc EXCEPT !.great = loc.great - 1,
                                !.vk = IF ULt(loc.great - 1, loc.k) THEN NONE ELSE loc.vk],
                    IF ULt(loc.great - 1, loc.k) THEN "dp_drop" ELSE "dp_gw")
       ELSE Step(v, loc, "dp_gl")

\* Lines 191-201.
DpGl ==
    /\ status = "running" /\ pc = "dp_gl"
    /\ IF ~AllIn({loc.great, loc.less, loc.k}) THEN Ub("dual_pivot_sort")
       ELSE LET isLess == compare(Rd(v, loc.great), loc.pivot1) = "Less"
                v1 == IF isLess
                      THEN Wr(Wr(v, loc.k, Rd(v, loc.less)), loc.less, Rd(v, loc.great))
                      ELSE Wr(v, loc.k, Rd(v, loc.great))
                v2 == Wr(v1, loc.great, loc.vk)
            IN  Checked(loc.great = 0, "dp_drop", v2,
                        [loc EXCEPT !.less = IF isLess THEN loc.less + 1 ELSE loc.less,
                                    !.great = loc.great - 1, !.k = loc.k + 1,
                                    !.vk = NONE],
                        "dp_loop")

DropSlot2Off(great) == great
\* The slots DualPivotSort::drop writes the pivots back to.
DropSlot1(less) == less - 1
DropSlot2(great) == great + 1

\* impl Drop for DualPivotSort, lines 137-143; it runs when the partitioning
\* block ends and when a panic unwinds through it.
DpDrop ==
    /\ status = "running" /\ pc = "dp_drop"
    /\ LET s1 == DropSlot1(loc.less)
           s2 == DropSlot2(loc.great)
           w1 == Wr(v, 0, Rd(v, s1))
           w2 == Wr(w1, s1, loc.pivot1)
           w3 == Wr(w2, n - 1, Rd(w2, s2))
           w4 == Wr(w3, s2, loc.pivot2)
           cleared == [loc EXCEPT !.pivot1 = NONE, !.pivot2 = NONE, !.vk = NONE]
       IN  IF ~AllIn({s1, s2, 0, n - 1}) THEN Ub("DualPivotSort::drop")
           ELSE /\ v' = w4
                /\ loc' = cleared
                /\ IF unwind = "none"
                   THEN status' = status /\ pc' = "dp_recurse"
                   ELSE /\ status' = IF unwind = "abort" THEN "aborted" ELSE "panicked"
                        /\ pc' = "done"
                /\ UNCHANGED <<params, stack, frame, heapsort_depth, unwind, wrapped, fault>>

\* Lines 209-211: the three recursive calls, each on a slice expression that
\* is evaluated when its turn comes.
DpRecurse ==
    /\ status = "running" /\ pc = "dp_recurse"
    /\ LET f(s, t) == [base |-> base, s |-> s, t |-> t, len |-> n, rec |-> rec + 1]
       IN  Return(<<f(0, loc.less - 1), f(loc.less, loc.great + 1),
                    f(loc.great + 2, n)>> \o stack)
    /\ UNCHANGED <<params, v, frame, heapsort_depth, unwind, wrapped, fault>>


\* ------------------------------------------- single_pivot_sort, fat_partition
\* A bounds-checked index that is out of bounds panics.
IndexPanic(where) == Stop("panicked", where)

\* Lines 230-234.
FatStart ==
    /\ status = "running" /\ pc = "fat_start"
    /\ LET pivot == loc.e[3]
       IN  IF ~AllIn({0, pivot}) THEN IndexPanic("fat_partition index")
           ELSE Checked(n = 0, "done", Swap(v, 0, pivot),
                        [L0 EXCEPT !.a = 0, !.b = 0, !.c = n - 1, !.d = n - 1],
                        "fat_b")

\* Lines 236-244.
FatB ==
    /\ status = "running" /\ pc = "fat_b"
    /\ IF ULe(loc.b, loc.c)
       THEN IF ~AllIn({loc.b, 0}) THEN IndexPanic("fat_partition index")
            ELSE LET r == compare_idxs(v, loc.b, 0)
                 IN  IF r = "Greater" THEN Step(v, loc, "fat_c")
                     ELSE IF r = "Equal"
                     THEN IF ~AllIn({loc.a, loc.b}) THEN Ub("fat_partition")
                          ELSE Step(Swap(v, loc.a, loc.b),
                                    [loc EXCEPT !.a = loc.a + 1, !.b = loc.b + 1],
                                    "fat_b")
                     ELSE Step(v, [loc EXCEPT !.b = loc.b + 1], "fat_b")
       ELSE Step(v, loc, "fat_c")

\* Lines 245-253.
FatC ==
    /\ status = "running" /\ pc = "fat_c"
    /\ IF ULe(loc.b, loc.c)
       THEN IF ~AllIn({loc.c, 0}) THEN IndexPanic("fat_partition index")
            ELSE LET r == compare_idxs(v, loc.c, 0)
                 IN  IF r = "Less" THEN Step(v, loc, "fat_x")
                     ELSE IF r = "Equal"
                     THEN IF ~AllIn({loc.c, loc.d}) THEN Ub("fat_partition")
                          ELSE Checked(loc.d = 0 \/ loc.c = 0, "done",
                                       Swap(v, loc.c, loc.d),
                                       [loc EXCEPT !.d = loc.d - 1, !.c = loc.c - 1],
                                       "fat_c")
                     ELSE Checked(loc.c = 0, "done", v,
                                  [loc EXCEPT !.c = loc.c - 1], "fat_c")
       ELSE Step(v, loc, "fat_x")

\* Lines 254-257.
FatX ==
    /\ status = "running" /\ pc = "fat_x"
    /\ IF ULt(loc.c, loc.b) THEN Step(v, loc, "fat_end")
       ELSE IF ~AllIn({loc.b, loc.c}) THEN Ub("fat_partition")
       ELSE Checked(loc.c = 0, "done", Swap(v, loc.b, loc.c),
                    [loc EXCEPT !.b = loc.b + 1, !.c = loc.c - 1], "fat_b")

\* unsafe fn swap_many
RECURSIVE swap_many(_, _, _, _, _)
swap_many(f, a, b, cnt, i) ==
    IF i < cnt THEN swap_many(Swap(f, a + i, b + i), a, b, cnt, i + 1) ELSE f

\* Lines 260-266 of fat_partition, then lines 216-222 of single_pivot_sort.
FatEnd ==
    /\ status = "running" /\ pc = "fat_end"
    /\ LET l == Min(loc.a, loc.b - loc.a)
           r == Min(loc.d - loc.c, n - 1 - loc.d)
           cntL == loc.b - loc.a
           cntR == loc.d - loc.c
           v1 == swap_many(v, 0, loc.b - l, l, 0)
           v2 == swap_many(v1, loc.b, n - r, r, 0)
           f(s, t) == [base |-> base, s |-> s, t |-> t, len |-> n, rec |-> rec + 1]
           left == IF cntL > 1 THEN <<f(0, cntL)>> ELSE <<>>
           right == IF cntR > 1 THEN <<f(n - cntR, n)>> ELSE <<>>
           touched == {x \in 0 .. (l - 1) : TRUE} \cup {loc.b - l + x : x \in 0 .. (l - 1)}
                      \cup {loc.b + x : x \in 0 .. (r - 1)}
                      \cup {n - r + x : x \in 0 .. (r - 1)}
       IN  IF ULt(loc.b, loc.a) \/ ULt(loc.d, loc.c) \/ ULt(n - 1, loc.d)
           THEN Checked(TRUE, "done", v, loc, "done")
           ELSE IF ~AllIn(touched) THEN Ub("fat_partition")
           ELSE /\ v' = v2
                /\ Return(left \o right \o stack)
                /\ UNCHANGED <<params, frame, heapsort_depth, unwind, wrapped, fault>>

\* ---------------------------------------------------------------- heapsort
\* Line 280, and line 290 of heapify; end and n are isize.
HeapsortStart ==
    /\ status = "running" /\ pc = "heapsort"
    /\ Step(v, [L0 EXCEPT !.end = n, !.hn = TruncDiv(n - 1, 4), !.phase = "heapify"],
            "heapify")

\* fn heapify, lines 291-294: Siftdown::siftdown(v, n) is siftdown_range
\* with end = v.len().
Heapify ==
    /\ status = "running" /\ pc = "heapify"
    /\ IF loc.hn >= 0
       THEN Step(v, [loc EXCEPT !.pos_ = loc.hn, !.send = n, !.hn = loc.hn - 1],
                 "sd_start")
       ELSE Step(v, [loc EXCEPT !.phase = "sort"], "heap_loop")

\* fn heapsort, lines 282-285.
HeapLoop ==
    /\ status = "running" /\ pc = "heap_loop"
    /\ IF loc.end > 0
       THEN IF ~AllIn({0, loc.end - 1}) THEN IndexPanic("heapsort index")
            ELSE Step(Swap(v, 0, loc.end - 1),
                      [loc EXCEPT !.end = loc.end - 1, !.pos_ = 0, !.send = loc.end - 1],
                      "sd_start")
       ELSE /\ Return(stack)
            /\ UNCHANGED <<params, v, frame, heapsort_depth, unwind, wrapped, fault>>

\* siftdown_range, lines 341-347.
SdStart ==
    /\ status = "running" /\ pc = "sd_start"
    /\ IF ~InR(loc.pos_) THEN Ub("Siftdown::siftdown_range")
       ELSE Step(v, [loc EXCEPT !.new = Rd(v, loc.pos_), !.pos = loc.pos_,
                                !.m_left = 4 * loc.pos_ + 2],
                 "sd_loop")

\* Line 348.
SdLoop ==
    /\ status = "running" /\ pc = "sd_loop"
    /\ Step(v, loc, IF loc.m_left < loc.send THEN "sd_c1" ELSE "sd_tail")

\* Lines 349-356.
SdC1 ==
    /\ status = "running" /\ pc = "sd_c1"
    /\ LET left == loc.m_left - 1
       IN  IF ~AllIn({left, loc.m_left}) THEN Ub("Siftdown::siftdown_range")
           ELSE Step(v, [loc EXCEPT !.largest_left =
                            IF compare_idxs(v, left, loc.m_left) = "Less"
                            THEN loc.m_left ELSE left],
                     "sd_c2")

\* Lines 357-361.
SdC2 ==
    /\ status = "running" /\ pc = "sd_c2"
    /\ LET m_right == loc.m_left + 1
           right == loc.m_left + 2
       IN  IF right < loc.send
           THEN IF ~AllIn({m_right, right}) THEN Ub("Siftdown::siftdown_range")
                ELSE Step(v, [loc EXCEPT !.largest_right =
                                 IF compare_idxs(v, m_right, right) = "Less"
                                 THEN right ELSE m_right],
                          "sd_c3")
           ELSE Step(v, [loc EXCEPT !.largest_right = m_right], "sd_c3")

SdChildLeftOnly(f, m_right, send, ll, lr) == ll
\* The child siftdown_range descends to, lines 362-366.
SdChild(f, m_right, send, ll, lr) ==
    IF m_right < send /\ compare_idxs(f, ll, lr) = "Less" THEN lr ELSE ll

\* Lines 362-370.
SdC3 ==
    /\ status = "running" /\ pc = "sd_c3"
    /\ LET m_right == loc.m_left + 1
           touched == {loc.largest_left, loc.pos}
                      \cup (IF m_right < loc.send THEN {loc.largest_right} ELSE {})
       IN  IF ~AllIn(touched) THEN Ub("Siftdown::siftdown_range")
           ELSE LET child == SdChild(v, m_right, loc.send,
                                     loc.largest_left, loc.largest_right)
                IN  Step(Wr(v, loc.pos, Rd(v, child)),
                         [loc EXCEPT !.pos = child, !.m_left = 4 * child + 2,
                                     !.largest_left = 0, !.largest_right = 0],
                         "sd_loop")

\* Lines 372-379.
SdTail ==
    /\ status = "running" /\ pc = "sd_tail"
    /\ LET left == loc.m_left - 1
       IN  IF left < loc.send
           THEN IF ~AllIn({left, loc.pos}) THEN Ub("Siftdown::siftdown_range")
                ELSE Step(Wr(v, loc.pos, Rd(v, left)), [loc EXCEPT !.pos = left],
                          "sd_drop")
           ELSE Step(v, loc, "sd_drop")

SiftDropSlotStart(l) == l.pos_
\* The slot a sift guard's drop writes its holding cell back to.
SiftDropSlot(l) == l.pos

\* What is left of the locals once a sift guard is dropped.
AfterSift(l) == [L0 EXCEPT !.end = l.end, !.hn = l.hn, !.phase = l.phase]

\* impl Drop for Siftdown, lines 392-397; on the normal path line 382 then
\* calls Siftup::siftup(v_, pos_, pos).
SdDrop ==
    /\ status = "running" /\ pc = "sd_drop"
    /\ LET s == SiftDropSlot(loc)
       IN  IF ~InR(s) THEN Ub("Siftdown::drop")
           ELSE /\ v' = Wr(v, s, loc.new)
                /\ IF unwind = "none"
                   THEN /\ status' = status /\ pc' = "su_start"
                        /\ loc' = [loc EXCEPT !.new = NONE, !.m_left = 0]
                   ELSE /\ status' = IF unwind = "abort" THEN "aborted" ELSE "panicked"
                        /\ pc' = "done"
                        /\ loc' = AfterSift(loc)
                /\ UNCHANGED <<params, stack, frame, heapsort_depth, unwind, wrapped, fault>>

\* Siftup::siftup, lines 306-311: start is siftdown_range's pos_, pos_ its pos.
SuStart ==
    /\ status = "running" /\ pc = "su_start"
    /\ IF ~InR(loc.pos) THEN Ub("Siftup::siftup")
       ELSE Step(v, [loc EXCEPT !.new = Rd(v, loc.pos)], "su_loop")

\* Lines 312-317; parent is (pos - 1) / 4.
SuLoop ==
    /\ status = "running" /\ pc = "su_loop"
    /\ LET parent == (loc.pos - 1) \div 4
       IN  IF loc.pos > loc.pos_
           THEN IF ~AllIn({parent, loc.pos}) THEN Ub("Siftup::siftup")
                ELSE IF compare(loc.new, Rd(v, parent)) = "Greater"
                THEN Step(Wr(v, loc.pos, Rd(v, parent)), [loc EXCEPT !.pos = parent],
                          "su_loop")
                ELSE Step(v, loc, "su_drop")
           ELSE Step(v, loc, "su_drop")

\* impl Drop for Siftup, lines 324-329; then the caller's loop goes on.
SuDrop ==
    /\ status = "running" /\ pc = "su_drop"
    /\ LET s == SiftDropSlot(loc)
       IN  IF ~InR(s) THEN Ub("Siftup::drop")
           ELSE /\ v' = Wr(v, s, loc.new)
                /\ loc' = AfterSift(loc)
                /\ IF unwind = "none"
                   THEN /\ status' = status
                        /\ pc' = IF loc.phase = "heapify" THEN "heapify" ELSE "heap_loop"
                   ELSE /\ status' = IF unwind = "abort" THEN "aborted" ELSE "panicked"
                        /\ pc' = "done"
                /\ UNCHANGED <<params, stack, frame, heapsort_depth, unwind, wrapped, fault>>

\* ----------------------------------------------------- the comparator aborts
\* The comparator is about to be called, on slots inside the slice.
AtCall(sites) == status = "running" /\ unwind = "none" /\ pc \in sites

PlainSites == {"ins_inner", "net", "adj", "fat_b", "fat_c"}
DualSites == {"dp_skip_less", "dp_skip_great", "dp_k1", "dp_k2", "dp_gw", "dp_gl"}
SiftdownSites == {"sd_c1", "sd_c2", "sd_c3"}
SiftupSites == {"su_loop"}

Calls ==
    CASE pc = "ins_inner" -> loc.j > 0
      [] pc \in {"fat_b", "fat_c"} -> ULe(loc.b, loc.c) /\ InR(IF pc = "fat_b" THEN loc.b ELSE loc.c)
      [] pc = "dp_skip_less" -> InR(loc.less)
      [] pc \in {"dp_skip_great", "dp_gw", "dp_gl"} -> InR(loc.great)
      [] pc = "sd_c2" -> loc.m_left + 2 < loc.send
      [] pc = "sd_c3" -> loc.m_left + 1 < loc.send
      [] pc = "su_loop" -> loc.pos > loc.pos_
      [] OTHER -> TRUE

\* Where the unwinding goes from a call site: the drop of the guard alive
\* there, or straight to the caller.
UnwindTo(site) ==
    IF site \in DualSites THEN "dp_drop"
    ELSE IF site \in SiftdownSites THEN "sd_drop"
    ELSE IF site \in SiftupSites THEN "su_drop"
    ELSE "done"

\* No guard is alive: the abort reaches the caller at once.
AbortPlain ==
    /\ AtCall(PlainSites) /\ Calls
    /\ UnwindTo(pc) = "done"
    /\ status' = "aborted" /\ pc' = "done" /\ unwind' = "abort"
    /\ UNCHANGED <<params, v, stack, frame, heapsort_depth, loc, wrapped, fault>>

\* A guard is alive: its drop runs next.
AbortGuarded ==
    /\ AtCall(DualSites \cup SiftdownSites \cup SiftupSites) /\ Calls
    /\ UnwindTo(pc) # "done"
    /\ pc' = UnwindTo(pc) /\ unwind' = "abort"
    /\ UNCHANGED <<params, v, status, stack, frame, heapsort_depth, loc, wrapped, fault>>

Next ==
    \/ SortBy \/ InsertionSortEntry \/ HeapsortEntry \/ Introsort
    \/ InsOuter \/ InsInner
    \/ IntroHeapsort \/ SelectPivots \/ NetStep \/ AdjStep
    \/ DpStart \/ DpSkipLess \/ DpSkipGreat \/ DpLoop \/ DpK1 \/ DpK2 \/ DpGw \/ DpGl
    \/ DpDrop \/ DpRecurse
    \/ FatStart \/ FatB \/ FatC \/ FatX \/ FatEnd
    \/ HeapsortStart \/ Heapify \/ HeapLoop
    \/ SdStart \/ SdLoop \/ SdC1 \/ SdC2 \/ SdC3 \/ SdTail \/ SdDrop
    \/ SuStart \/ SuLoop \/ SuDrop
    \/ AbortPlain \/ AbortGuarded

Spec == Init /\ [][Next]_vars


\* ================================================================== claims
Identity == [i \in DOMAIN keys |-> i]

\* f holds every element of the input exactly once.
IsPermutation(f) == {f[i] : i \in DOMAIN f} = DOMAIN keys

\* Every adjacent pair of f compares Less or Equal.
Sorted(f) ==
    \A i \in DOMAIN f :
        (i + 1) \in DOMAIN f => compare(f[i], f[i + 1]) \in {"Less", "Equal"}

\* floor(3 * log2(x) / 2), the real-valued logarithm: the largest k with
\* 4^k <= x^3.
RECURSIVE FloorLog4(_)
FloorLog4(y) == IF y < 4 THEN 0 ELSE 1 + FloorLog4(y \div 4)
ThreeHalvesLog2(x) == FloorLog4(x * x * x)

InQuick == entry \in {"sort", "sort_by"} /\ pc # "start"
                /\ MaybeInsertion(N, elemSize) = "quick"
SelectPcs == {"net", "adj"}
DualPcs == {"dp_start", "dp_skip_less", "dp_skip_great", "dp_loop", "dp_k1",
            "dp_k2", "dp_gw", "dp_gl", "dp_drop", "dp_recurse"}
FatPcs == {"fat_start", "fat_b", "fat_c", "fat_x", "fat_end"}
SiftPcs == {"sd_loop", "sd_c1", "sd_c2", "sd_c3", "sd_tail", "sd_drop",
            "su_loop", "su_drop"}

\* C1: with a total order (ascending or reversed), when sort, sort_by,
\* heapsort or insertion_sort returns, every adjacent pair compares Less or
\* Equal; with the reversed order the keys are therefore non-increasing.
C1_SortedOnReturn ==
    (status = "returned" /\ cmpKind \in TotalOrders) =>
        /\ Sorted(v)
        /\ cmpKind = "rev" =>
              \A i \in DOMAIN v :
                  (i + 1) \in DOMAIN v => keys[v[i]] >= keys[v[i + 1]]

C1_Witness ==
    /\ status = "returned" /\ cmpKind = "rev" /\ entry = "sort_by"
    /\ elemSize = 64 /\ N >= MinBig
    /\ v # Identity
    /\ \E i \in DOMAIN v : keys[v[i]] # keys[v[0]]

\* C2: on normal return of any entry point the slice holds every element of
\* the input exactly once, whatever the comparator answered.
C2_PermutationOnReturn ==
    status = "returned" => IsPermutation(v)

C2_Witness ==
    /\ status = "returned" /\ cmpKind \in {"equal", "noeq", "stuck"}
    /\ entry = "sort_by" /\ elemSize = 64 /\ N >= MinBig
    /\ v # Identity

\* C3: when the comparator aborted during sort / sort_by, the abort reaches
\* the caller with the holding cells written back inside the range and the
\* slice holding every element exactly once.
C3_AbortRestores ==
    (entry \in {"sort", "sort_by"} /\ unwind = "abort" /\ status # "running") =>
        /\ status = "aborted"
        /\ fault = ""
        /\ loc.pivot1 = NONE /\ loc.pivot2 = NONE
        /\ IsPermutation(v)

\* C4: with a comparator that answers every call, the partitioners touch
\* only slots 0..n-1 of their range and no index computation underflows.
PartitionFaults ==
    {"dual_pivot_sort", "DualPivotSort::drop", "fat_partition",
     "fat_partition index", "underflow"}
C4_PartitionInRange ==
    unwind # "abort" => fault \notin PartitionFaults

\* C5: sort_by's bound is floor(3*log2(n)/2), and no pivot selection or
\* partition step runs at a depth above it.
C5_DepthBound ==
    InQuick =>
        /\ heapsort_depth = ThreeHalvesLog2(N)
        /\ pc \in (SelectPcs \cup DualPcs \cup FatPcs) => rec <= ThreeHalvesLog2(N)

\* C6: on a slice of length 0 or 1 every entry point returns with the slice
\* unchanged, raises nothing and touches no slot outside the slice.
C6_DegenerateNoop ==
    N <= 1 =>
        /\ status \in {"running", "returned"}
        /\ fault = ""
        /\ v = Identity

\* C7: insertion_sort keeps the input order of any two elements that
\* compare Equal (a total preorder: ascending, reversed or all-equal).
C7_InsertionStable ==
    (entry = "insertion_sort" /\ status = "returned"
        /\ cmpKind \in TotalOrders \cup {"equal"}) =>
        \A i, j \in DOMAIN v :
            (i < j /\ compare(v[i], v[j]) = "Equal") => v[i] < v[j]

C7_Witness ==
    /\ entry = "insertion_sort" /\ status = "returned" /\ cmpKind = "asc"
    /\ v # Identity
    /\ \E i, j \in DOMAIN v : i < j /\ keys[v[i]] = keys[v[j]]

\* C8: in heapsort the element in a sift's holding cell is exactly the one
\* missing from the slice, the vacated slot is the one the drop writes, and
\* once the drop ran (on return, and when a comparator abort unwound through
\* it) the cell is empty and the slice holds every element exactly once.
InHeapsort == loc.phase # ""
C8_SiftWriteBack ==
    (InHeapsort /\ status \in {"running", "returned", "aborted"}) =>
        /\ (pc \in SiftPcs) =>
              /\ loc.new # NONE
              /\ InR(loc.pos)
              /\ IsPermutation(Wr(v, loc.pos, loc.new))
        /\ (pc \notin SiftPcs) =>
              /\ loc.new = NONE
              /\ IsPermutation(v)

C8_Witness ==
    /\ entry = "heapsort" /\ status = "aborted" /\ loc.phase = "sort"
    /\ N >= MinBig /\ v # Identity /\ loc.new = NONE

\* C9: with a total order, when the dual-pivot partitioning of a range of
\* length n ends normally, the drop leaves pivot1 in slot less-1 and pivot2
\* in slot great+1 with 1 <= less <= great+1 <= n-1, pivot1 < pivot2, the
\* slots left of less-1 below pivot1, the slots less..great between the
\* pivots, the slots right of great+1 above pivot2; the three ranges
\* recursed on leave both pivot slots out and are shorter than n.
DualPostcondition(f, less, great, p1, p2) ==
    /\ 1 <= less /\ less <= great + 1 /\ great + 1 <= n - 1
    /\ compare(p1, p2) = "Less"
    /\ Rd(f, less - 1) = p1
    /\ Rd(f, great + 1) = p2
    /\ \A i \in 0 .. (less - 2) : compare(Rd(f, i), p1) = "Less"
    /\ \A i \in less .. great :
          /\ compare(Rd(f, i), p1) \in {"Greater", "Equal"}
          /\ compare(Rd(f, i), p2) \in {"Less", "Equal"}
    /\ \A i \in (great + 2) .. (n - 1) : compare(Rd(f, i), p2) = "Greater"

\* The slice expressions of lines 209-211, as pushed for a partition that
\* ended with less and great.
DualRanges(fs, less, great) ==
    /\ Len(fs) >= 3
    /\ <<fs[1].s, fs[1].t>> = <<0, less - 1>>
    /\ <<fs[2].s, fs[2].t>> = <<less, great + 1>>
    /\ <<fs[3].s, fs[3].t>> = <<great + 2, n>>
    /\ \A x \in 1 .. 3 :
          /\ fs[x].base = base /\ fs[x].len = n /\ fs[x].rec = rec + 1
          /\ 0 <= fs[x].s /\ fs[x].s <= fs[x].t /\ fs[x].t <= n
          /\ fs[x].t - fs[x].s < n
          /\ \A p \in {less - 1, great + 1} : ~(fs[x].s <= p /\ p < fs[x].t)

C9_DualPartition ==
    [][/\ (pc = "dp_drop" /\ unwind = "none" /\ cmpKind \in TotalOrders) =>
             /\ pc' = "dp_recurse"
             /\ DualPostcondition(v', loc.less, loc.great, loc.pivot1, loc.pivot2)
       /\ (pc = "dp_recurse" /\ cmpKind \in TotalOrders) =>
             DualRanges(stack', loc.less, loc.great)]_vars

C9_Witness ==
    /\ pc = "dp_recurse" /\ cmpKind = "asc"
    /\ loc.less > 1 /\ loc.great > loc.less /\ loc.great < n - 2
    /\ v # Identity

\* C10: pivot selection runs only on ranges longer than the insertion
\* threshold, the threshold is in [10, 42] for every element size, and the
\* five sample positions are distinct and inside the range.
C10_Samples ==
    /\ (entry \in {"sort", "sort_by"} /\ pc # "start" /\ N > 1) =>
          /\ fault # "divzero"
          /\ Threshold(elemSize) >= MIN_QUICKSORT_ELEMS
          /\ Threshold(elemSize) <= MAX_INSERTION_SORT_ELEMS
    /\ (pc \in SelectPcs) =>
          /\ n > Threshold(elemSize)
          /\ Cardinality({loc.e[x] : x \in 1 .. 5}) = 5
          /\ \A x \in 1 .. 5 : InR(loc.e[x])
          /\ {loc.e[x] : x \in 1 .. 5} = {Samples(n)[x] : x \in 1 .. 5}

====
